---------------------------- MODULE Spec2Model ----------------------------
(***************************************************************************)
(* A model of csr-preview/src/App.jsx: the CSV parser, the row pipeline    *)
(* (visible rows, filter, sort) and the per-sheet fetch-and-load machine.  *)
(*                                                                         *)
(* A JavaScript string is modelled as a sequence of one-character strings, *)
(* so that scanning, trimming, case folding and substring search are       *)
(* computed character by character as the code computes them.              *)
(***************************************************************************)
EXTENDS Integers, Sequences, FiniteSets, TLC

VARIABLES
    text,          \* the raw CSV text handed to parseCSV
    parsed,        \* parseCSV(text): rows of fields, before sanitizeRow
    rows,          \* the row objects loadSheet stores in a sheet's slot
    filters,       \* App state: { query }
    filteredRows,  \* useMemo: applyFilters(active.rows, filters)
    sort,          \* App state: { key, dir }
    sortedRows,    \* useMemo: sortRows(filteredRows, sort)
    stage,         \* which step of the pipeline has run
    sheets,        \* App state: one slot per entry of SHEETS
    cancelled,     \* the effect's `cancelled` flag
    mounted,       \* whether the loading effect has run
    pc,            \* per sheet: where its loadSheet call is suspended
    urlIndex,      \* per sheet: index in urls of the candidate being tried
    lastError,     \* per sheet: fetchCsvWithFallback's lastError
    settled,       \* per sheet: how fetchCsvWithFallback settled
    requests,      \* per sheet: the candidates passed to fetch(), in order
    outcomes,      \* per sheet: how each of those requests ended
    hung           \* per sheet: its pending request never completes

pipeVars == <<text, parsed, rows, filters, filteredRows, sort, sortedRows, stage>>
loadVars == <<sheets, cancelled, mounted, pc, urlIndex, lastError, settled,
              requests, outcomes, hung>>
vars == <<text, parsed, rows, filters, filteredRows, sort, sortedRows, stage,
          sheets, cancelled, mounted, pc, urlIndex, lastError, settled,
          requests, outcomes, hung>>

(***************************************************************************)
(* Bounds of the model.                                                    *)
(***************************************************************************)
MaxTextLen == 5
MaxRows == 3
MaxFilterRows == 2
MaxQueryLen == 2
MaxSortRows == 3
NumSheets == 2

(***************************************************************************)
(* Characters and values.                                                  *)
(***************************************************************************)
QUOTE == "\""
COMMA == ","
LF == "\n"
CR == "\r"
SPACE == " "
NULL == "null"
UNDEFINED == "undefined"

COL_INDEX == [item |-> 10, name |-> 11, value |-> 12]

RECURSIVE SeqsUpTo(_, _)
SeqsUpTo(S, n) ==
    IF n = 0 THEN {<<>>}
    ELSE LET shorter == SeqsUpTo(S, n - 1)
         IN  shorter \cup {Append(s, c) : s \in shorter, c \in S}

RECURSIVE Ascending(_)
Ascending(S) ==
    IF S = {} THEN <<>>
    ELSE LET m == CHOOSE x \in S : \A y \in S : x <= y
         IN  <<m>> \o Ascending(S \ {m})

(***************************************************************************)
(* parseCSV                                                                *)
(***************************************************************************)
\* `inQuotes && next === '"'`: a doubled quote inside a quoted field.
EscapedQuote(inQuotes, next) == inQuotes /\ next = QUOTE

\* A CR directly followed by LF is consumed as one terminator (`i += 1`).
TerminatorWidthOne(char, next) == 1

TerminatorWidth(char, next) == IF char = CR /\ next = LF THEN 2 ELSE 1

\* After the loop: the pending field and row are pushed when either is non-empty.
EndOfInputAlways(out, current, value) == Append(out, Append(current, value))

EndOfInput(out, current, value) ==
    IF Len(value) > 0 \/ Len(current) > 0
    THEN Append(out, Append(current, value))
    ELSE out

RECURSIVE parseCSVFrom(_, _, _, _, _, _)
parseCSVFrom(t, i, out, current, value, inQuotes) ==
    IF i > Len(t) THEN EndOfInput(out, current, value)
    ELSE LET char == t[i]
             next == IF i + 1 <= Len(t) THEN t[i + 1] ELSE UNDEFINED
         IN  IF char = QUOTE
             THEN IF EscapedQuote(inQuotes, next)
                  THEN parseCSVFrom(t, i + 2, out, current, Append(value, QUOTE), inQuotes)
                  ELSE parseCSVFrom(t, i + 1, out, current, value, ~inQuotes)
             ELSE IF char = COMMA /\ ~inQuotes
             THEN parseCSVFrom(t, i + 1, out, Append(current, value), <<>>, inQuotes)
             ELSE IF char \in {LF, CR} /\ ~inQuotes
             THEN parseCSVFrom(t, i + TerminatorWidth(char, next),
                               Append(out, Append(current, value)), <<>>, <<>>, inQuotes)
             ELSE parseCSVFrom(t, i + 1, out, current, Append(value, char), inQuotes)

parseCSV(t) == parseCSVFrom(t, 1, <<>>, <<>>, <<>>, FALSE)

(***************************************************************************)
(* The parser on its own: every text over the alphabet, up to MaxTextLen.  *)
(***************************************************************************)
CsvAlphabet == {"a", COMMA, QUOTE, LF, CR}

Texts == SeqsUpTo(CsvAlphabet, MaxTextLen)

LoadIdle ==
    /\ sheets = <<>>
    /\ cancelled = FALSE
    /\ mounted = FALSE
    /\ pc = <<>>
    /\ urlIndex = <<>>
    /\ lastError = <<>>
    /\ settled = <<>>
    /\ requests = <<>>
    /\ outcomes = <<>>
    /\ hung = <<>>

ParseInit ==
    /\ text \in Texts
    /\ parsed = <<>>
    /\ rows = <<>>
    /\ filters = [query |-> <<>>]
    /\ filteredRows = <<>>
    /\ sort = [key |-> "csr", dir |-> "desc"]
    /\ sortedRows = <<>>
    /\ stage = "text"
    /\ LoadIdle

ParseText ==
    /\ stage = "text"
    /\ parsed' = parseCSV(text)
    /\ stage' = "parsed"
    /\ UNCHANGED <<text, rows, filters, filteredRows, sort, sortedRows>>
    /\ UNCHANGED loadVars

ParseNext == ParseText

ParseSpec == ParseInit /\ [][ParseNext]_vars

(***************************************************************************)
(* C6 and C7: what parseCSV returns, stated position by position.          *)
(* A character that is not a quote is inside quotes exactly when an odd    *)
(* number of quote characters precedes it.                                 *)
(***************************************************************************)
QuotesBefore(t, p) == Cardinality({q \in 1..(p - 1) : t[q] = QUOTE})

InsideQuotes(t, p) == QuotesBefore(t, p) % 2 = 1

IsFieldSeparator(t, p) == t[p] = COMMA /\ ~InsideQuotes(t, p)

\* LF, a lone CR, and the LF of a CRLF pair each end one row outside quotes.
IsRowEnd(t, p) ==
    /\ ~InsideQuotes(t, p)
    /\ \/ t[p] = LF
       \/ t[p] = CR /\ ~(p < Len(t) /\ t[p + 1] = LF)

\* The second quote of a doubled quote inside a quoted field.
IsLiteralQuote(t, p) ==
    /\ t[p] = QUOTE
    /\ p > 1
    /\ t[p - 1] = QUOTE
    /\ QuotesBefore(t, p) % 2 = 0

IsFieldText(t, p) ==
    \/ IsLiteralQuote(t, p)
    \/ /\ t[p] # QUOTE
       /\ InsideQuotes(t, p) \/ t[p] \notin {COMMA, LF, CR}

FieldTextBetween(t, a, b) ==
    LET pos == Ascending({p \in a..b : IsFieldText(t, p)})
    IN  [k \in 1..Len(pos) |-> t[pos[k]]]

FieldsOfSpan(t, a, b) ==
    LET seps == Ascending({p \in a..b : IsFieldSeparator(t, p)})
        n == Len(seps)
    IN  [k \in 1..(n + 1) |->
            FieldTextBetween(t, IF k = 1 THEN a ELSE seps[k - 1] + 1,
                                IF k = n + 1 THEN b ELSE seps[k] - 1)]

RowEnds(t) == Ascending({p \in 1..Len(t) : IsRowEnd(t, p)})

TerminatedRows(t) ==
    LET ends == RowEnds(t)
    IN  [k \in 1..Len(ends) |->
            FieldsOfSpan(t, IF k = 1 THEN 1 ELSE ends[k - 1] + 1, ends[k] - 1)]

TailStart(t) ==
    LET ends == RowEnds(t)
    IN  IF Len(ends) = 0 THEN 1 ELSE ends[Len(ends)] + 1

\* The input does not end with a line terminator outside quotes.
HasUnterminatedTail(t) == TailStart(t) <= Len(t)

\* The unterminated tail carries field text or a field separator.
TailHasContent(t) ==
    \E p \in TailStart(t)..Len(t) : IsFieldText(t, p) \/ IsFieldSeparator(t, p)

TailRow(t) == FieldsOfSpan(t, TailStart(t), Len(t))

\* C6 as claimed, on texts whose quotes are all closed: quoted commas and
\* terminators are field text, a doubled quote is one literal quote, LF, CR
\* and CRLF each end one row, empty input yields no rows, and input without
\* a trailing terminator ALWAYS yields its last row.
C6_AsClaimed ==
    (stage = "parsed" /\ QuotesBefore(text, Len(text) + 1) % 2 = 0) =>
        parsed = IF HasUnterminatedTail(text)
                 THEN Append(TerminatedRows(text), TailRow(text))
                 ELSE TerminatedRows(text)

\* C6 amended: as above, but input without a trailing terminator yields
\* its last row only when that row has field text or a comma; a last row
\* that is a single empty field (a lone quote, or an empty quoted field)
\* is dropped.
C6_ParseCSV ==
    stage = "parsed" =>
        parsed = IF HasUnterminatedTail(text) /\ TailHasContent(text)
                 THEN Append(TerminatedRows(text), TailRow(text))
                 ELSE TerminatedRows(text)

\* A quoted field holding a comma and a line terminator, followed by a
\* doubled quote, has been parsed into one field.
C6_Witness ==
    /\ stage = "parsed"
    /\ text = <<QUOTE, COMMA, LF, QUOTE, QUOTE>>
    /\ parsed = <<<<(<<COMMA, LF, QUOTE>>)>>>>

\* An input whose last row is an empty quoted field has been parsed.
C6_DroppedTail ==
    /\ stage = "parsed"
    /\ text = <<"a", LF, QUOTE, QUOTE>>
    /\ parsed = <<<<(<<"a">>)>>>>

(***************************************************************************)
(* C7: rendering the parsed rows (fields joined by commas, rows joined by  *)
(* a line terminator) and parsing the rendering again.                     *)
(***************************************************************************)
RECURSIVE JoinSeqs(_, _)
JoinSeqs(ss, sep) ==
    IF Len(ss) = 0 THEN <<>>
    ELSE IF Len(ss) = 1 THEN ss[1]
    ELSE ss[1] \o sep \o JoinSeqs(Tail(ss), sep)

RenderRows(rs, terminator) ==
    JoinSeqs([r \in 1..Len(rs) |-> JoinSeqs(rs[r], <<COMMA>>)], terminator)

LineTerminators == {<<LF>>, <<CR>>, <<CR, LF>>}

PlainFields(rs) ==
    \A r \in 1..Len(rs) : \A f \in 1..Len(rs[r]) : \A k \in 1..Len(rs[r][f]) :
        rs[r][f][k] \notin {COMMA, QUOTE, LF, CR}

\* Valid CSV text: every quote that opens a field is closed.
BalancedQuotes(t) == QuotesBefore(t, Len(t) + 1) % 2 = 0

EndsWithEmptyRow(rs) == Len(rs) > 0 /\ rs[Len(rs)] = <<(<<>>)>>

RoundTrips(rs) ==
    \A terminator \in LineTerminators : parseCSV(RenderRows(rs, terminator)) = rs

\* C7 as claimed: the round trip holds for every valid text with plain
\* fields, rows made of a single empty field included.
C7_AsClaimed ==
    (stage = "parsed" /\ BalancedQuotes(text) /\ PlainFields(parsed))
        => RoundTrips(parsed)

\* C7 amended: the round trip holds unless the LAST parsed row is a single
\* empty field; empty fields and single-empty-field rows elsewhere are fine.
C7_RoundTrip ==
    (stage = "parsed" /\ BalancedQuotes(text) /\ PlainFields(parsed)
        /\ ~EndsWithEmptyRow(parsed))
        => RoundTrips(parsed)

\* A text with an empty field and an inner row made of a single empty field
\* has been parsed.
C7_Witness ==
    /\ stage = "parsed"
    /\ text = <<"a", COMMA, LF, LF, "a">>
    /\ parsed = << <<(<<"a">>), <<>>>>, <<(<<>>)>>, <<(<<"a">>)>> >>
    /\ RoundTrips(parsed)


(***************************************************************************)
(* sanitizeRow, parseCsr and the row objects loadSheet builds              *)
(***************************************************************************)
Whitespace == {SPACE, "\t", LF, CR}

RECURSIVE trimStart(_)
trimStart(s) ==
    IF Len(s) > 0 /\ s[1] \in Whitespace THEN trimStart(Tail(s)) ELSE s

RECURSIVE trimEnd(_)
trimEnd(s) ==
    IF Len(s) > 0 /\ s[Len(s)] \in Whitespace
    THEN trimEnd(SubSeq(s, 1, Len(s) - 1))
    ELSE s

trim(s) == trimEnd(trimStart(s))

\* `x ?? ""`
OrEmpty(x) == IF x = UNDEFINED \/ x = NULL THEN <<>> ELSE x

\* cells[index], with JavaScript's 0-based index; undefined past the end.
CellAt(cells, index) ==
    IF index + 1 <= Len(cells) THEN cells[index + 1] ELSE UNDEFINED

sanitizeRow(row) == [k \in 1..Len(row) |-> trim(OrEmpty(row[k]))]

Digits == <<"0", "1", "2", "3", "4", "5", "6", "7", "8", "9">>

IsDigit(c) == \E k \in 1..10 : Digits[k] = c

DigitValue(c) == (CHOOSE k \in 1..10 : Digits[k] = c) - 1

\* value.replace(/[^0-9.-]/g, "")
KeepsCsrChar(c) == IsDigit(c) \/ c = "." \/ c = "-"

CleanCsr(value) == SelectSeq(value, KeepsCsrChar)

RECURSIVE DigitsToInt(_)
DigitsToInt(ds) ==
    IF Len(ds) = 0 THEN 0
    ELSE 10 * DigitsToInt(SubSeq(ds, 1, Len(ds) - 1)) + DigitValue(ds[Len(ds)])

\* Number(cleaned) for a string of digits, "." and "-": an optional sign, then
\* digits with at most one ".", at least one digit; anything else is NaN.
\* A number is kept exactly, as num / 10^frac; null, NaN and -Infinity have
\* their own kind.
Number(num, frac) == [kind |-> "number", num |-> num, frac |-> frac]
NULL_NUMBER == [kind |-> "null", num |-> 0, frac |-> 0]
NaN == [kind |-> "NaN", num |-> 0, frac |-> 0]
NEG_INFINITY == [kind |-> "-Infinity", num |-> 0, frac |-> 0]

ToNumber(cleaned) ==
    LET negative == Len(cleaned) > 0 /\ cleaned[1] = "-"
        body == IF negative THEN Tail(cleaned) ELSE cleaned
        dots == {k \in 1..Len(body) : body[k] = "."}
        wellFormed ==
            /\ \A k \in 1..Len(body) : IsDigit(body[k]) \/ body[k] = "."
            /\ Cardinality(dots) <= 1
            /\ \E k \in 1..Len(body) : IsDigit(body[k])
        dot == IF dots = {} THEN Len(body) + 1 ELSE CHOOSE k \in dots : TRUE
        whole == SubSeq(body, 1, dot - 1)
        fraction == SubSeq(body, dot + 1, Len(body))
        magnitude == DigitsToInt(whole \o fraction)
    IN  IF wellFormed
        THEN Number(IF negative THEN 0 - magnitude ELSE magnitude, Len(fraction))
        ELSE NaN

parseCsr(value) ==
    IF Len(value) = 0 THEN NULL_NUMBER
    ELSE LET cleaned == CleanCsr(value)
         IN  IF Len(cleaned) = 0 THEN NULL_NUMBER
             ELSE LET number == ToNumber(cleaned)
                  IN  IF number.kind = "number" THEN number ELSE NULL_NUMBER

\* The object built for the row at 0-based rowIndex (lines 300-312).
RowObject(cells, rowIndex) ==
    LET item == trim(OrEmpty(CellAt(cells, COL_INDEX.item)))
        name == trim(OrEmpty(CellAt(cells, COL_INDEX.name)))
        value == trim(OrEmpty(CellAt(cells, COL_INDEX.value)))
    IN  [cells |-> cells, rowNumber |-> rowIndex + 1, item |-> item,
         name |-> name, value |-> value, csrNumber |-> parseCsr(value)]

\* A bug that looks at every cell instead of the three projected ones.
IsVisibleAnyCell(row) ==
    /\ row.rowNumber > 1
    /\ \E k \in 1..Len(row.cells) : Len(row.cells[k]) > 0

\* The two filters of lines 313-314.
IsVisible(row) ==
    /\ row.rowNumber > 1
    /\ Len(row.item) > 0 \/ Len(row.name) > 0 \/ Len(row.value) > 0

loadSheetRows(parsedRows) ==
    LET rawRows == [k \in 1..Len(parsedRows) |-> sanitizeRow(parsedRows[k])]
        objects == [k \in 1..Len(rawRows) |-> RowObject(rawRows[k], k - 1)]
    IN  SelectSeq(objects, IsVisible)

(***************************************************************************)
(* The row builder on its own: parsed sheets of up to MaxRows rows whose   *)
(* rows are ragged, blank, or carry the projected cells at indices 10..12. *)
(***************************************************************************)
LeadingCells == {[k \in 1..10 |-> <<>>],
                 [k \in 1..10 |-> IF k = 1 THEN <<"x">> ELSE <<>>]}

ProjectedCells ==
    { <<>>,
      <<(<<"x">>)>>,
      <<(<<>>), <<>>, <<"x">>>>,
      <<(<<SPACE>>), <<SPACE>>, <<SPACE>>>>,
      <<(<<>>), <<SPACE, "x", SPACE>>, <<>>>>,
      <<(<<>>), <<>>, <<>>>> }

RowShapes ==
    {lead \o tail : lead \in LeadingCells, tail \in ProjectedCells}
        \cup {<<(<<>>)>>}

ParsedSheets == SeqsUpTo(RowShapes, MaxRows)

RowsInit ==
    /\ text = <<>>
    /\ parsed \in ParsedSheets
    /\ rows = <<>>
    /\ filters = [query |-> <<>>]
    /\ filteredRows = <<>>
    /\ sort = [key |-> "csr", dir |-> "desc"]
    /\ sortedRows = <<>>
    /\ stage = "parsed"
    /\ LoadIdle

BuildRows ==
    /\ stage = "parsed"
    /\ rows' = loadSheetRows(parsed)
    /\ stage' = "rows"
    /\ UNCHANGED <<text, parsed, filters, filteredRows, sort, sortedRows>>
    /\ UNCHANGED loadVars

RowsNext == BuildRows

RowsSpec == RowsInit /\ [][RowsNext]_vars

(***************************************************************************)
(* C8: the visible row set.                                                *)
(***************************************************************************)
\* The cell at 0-based index of a parsed row holds nothing but whitespace,
\* or is missing.
BlankCell(row, index) ==
    index + 1 <= Len(row) =>
        \A k \in 1..Len(row[index + 1]) : row[index + 1][k] \in Whitespace

BlankProjection(row) ==
    BlankCell(row, 10) /\ BlankCell(row, 11) /\ BlankCell(row, 12)

Visible(s) == SelectSeq(s, LAMBDA c : c \notin Whitespace)

\* C8: once the rows are built, a physical position appears as a rowNumber
\* exactly when it is not position 1 and its item, name and value are not all
\* blank; the kept rows are in parsed order, each carrying the cells of the
\* parsed row at its rowNumber.
C8_VisibleRows ==
    stage = "rows" =>
        /\ \A p \in 1..Len(parsed) :
              (\E k \in 1..Len(rows) : rows[k].rowNumber = p)
                  <=> (p > 1 /\ ~BlankProjection(parsed[p]))
        /\ \A k \in 1..Len(rows) :
              /\ rows[k].rowNumber \in 2..Len(parsed)
              /\ k > 1 => rows[k - 1].rowNumber < rows[k].rowNumber
              /\ Len(rows[k].cells) = Len(parsed[rows[k].rowNumber])
              /\ \A c \in 1..Len(rows[k].cells) :
                    Visible(rows[k].cells[c]) = Visible(parsed[rows[k].rowNumber][c])

\* A sheet whose second row is blank in item, name and value but not in
\* another cell, and whose third row is kept with rowNumber 3.
C8_Witness ==
    /\ stage = "rows"
    /\ Len(parsed) = 3
    /\ BlankProjection(parsed[2])
    /\ parsed[2][1] = <<"x">>
    /\ Len(rows) = 1
    /\ rows[1].rowNumber = 3
    /\ rows[1].name = <<"x">>

(***************************************************************************)
(* applyFilters                                                            *)
(***************************************************************************)
DEFAULT_FILTERS == [query |-> <<>>]

UpperCase == <<"A", "B">>
LowerCase == <<"a", "b">>

toLowerCaseChar(c) ==
    IF \E k \in 1..Len(UpperCase) : UpperCase[k] = c
    THEN LowerCase[CHOOSE k \in 1..Len(UpperCase) : UpperCase[k] = c]
    ELSE c

toLowerCase(s) == [k \in 1..Len(s) |-> toLowerCaseChar(s[k])]

\* haystack.includes(needle)
includes(haystack, needle) ==
    \E start \in 1..(Len(haystack) - Len(needle) + 1) :
        SubSeq(haystack, start, start + Len(needle) - 1) = needle

\* A bug that searches the item column only.
RowMatchesItemOnly(row, query) == includes(toLowerCase(row.item), query)

\* The predicate of lines 135-137.
RowMatches(row, query) ==
    \/ includes(toLowerCase(row.item), query)
    \/ includes(toLowerCase(row.name), query)

applyFilters(rs, fs) ==
    LET query == toLowerCase(trim(fs.query))
    IN  IF Len(query) = 0 THEN rs
        ELSE SelectSeq(rs, LAMBDA row : RowMatches(row, query))

(***************************************************************************)
(* The filter on its own: a loaded sheet, and the query box being edited.  *)
(***************************************************************************)
Cell_Ab == <<"A", "b">>
Cell_b == <<"b">>
Cell_ab == <<"a", "b">>

\* A parsed row with the given item, name and value, and "ab" in column 0.
ParsedRow(item, name, value) ==
    [k \in 1..13 |-> IF k = 1 THEN Cell_ab
                     ELSE IF k = 11 THEN item
                     ELSE IF k = 12 THEN name
                     ELSE IF k = 13 THEN value
                     ELSE <<>>]

HeaderRow == ParsedRow(<<"b">>, <<"a">>, <<"b">>)

FilterRowShapes ==
    { ParsedRow(Cell_Ab, Cell_b, <<>>),
      ParsedRow(Cell_b, Cell_Ab, <<>>),
      ParsedRow(Cell_b, Cell_b, Cell_ab),
      ParsedRow(<<>>, <<>>, Cell_Ab),
      ParsedRow(Cell_Ab, Cell_Ab, Cell_b),
      ParsedRow(<<>>, <<>>, <<>>) }

FilterSheets ==
    {loadSheetRows(<<HeaderRow>> \o body) : body \in SeqsUpTo(FilterRowShapes, MaxFilterRows)}

Queries == SeqsUpTo({"a", "B", SPACE}, MaxQueryLen)

FilterInit ==
    /\ text = <<>>
    /\ parsed = <<>>
    /\ rows \in FilterSheets
    /\ filters = DEFAULT_FILTERS
    /\ filteredRows = applyFilters(rows, filters)
    /\ sort = [key |-> "csr", dir |-> "desc"]
    /\ sortedRows = <<>>
    /\ stage = "filter"
    /\ LoadIdle

\* updateFilter("query", value), and the filteredRows memo recomputed.
updateFilter(value) ==
    /\ stage = "filter"
    /\ filters' = [filters EXCEPT !.query = value]
    /\ filteredRows' = applyFilters(rows, filters')
    /\ UNCHANGED <<text, parsed, rows, sort, sortedRows, stage>>
    /\ UNCHANGED loadVars

clearFilters ==
    /\ stage = "filter"
    /\ filters' = DEFAULT_FILTERS
    /\ filteredRows' = applyFilters(rows, filters')
    /\ UNCHANGED <<text, parsed, rows, sort, sortedRows, stage>>
    /\ UNCHANGED loadVars

FilterNext ==
    \/ \E value \in Queries : updateFilter(value)
    \/ clearFilters

FilterSpec == FilterInit /\ [][FilterNext]_vars

(***************************************************************************)
(* C9: the filter.                                                         *)
(***************************************************************************)
SameLetter(c, d) ==
    \/ c = d
    \/ \E k \in 1..Len(UpperCase) :
          {c, d} = {UpperCase[k], LowerCase[k]}

\* needle occurs in haystack, letter case ignored.
OccursIn(needle, haystack) ==
    \E start \in 0..(Len(haystack) - Len(needle)) :
        \A k \in 1..Len(needle) : SameLetter(needle[k], haystack[start + k])

\* core is q without its leading and trailing whitespace.
IsTrimOf(core, q) ==
    /\ \E a \in 0..Len(q) : \E b \in a..Len(q) :
          /\ core = SubSeq(q, a + 1, b)
          /\ \A k \in (1..a) \cup ((b + 1)..Len(q)) : q[k] \in Whitespace
    /\ Len(core) > 0 => core[1] \notin Whitespace /\ core[Len(core)] \notin Whitespace

Cores(q) == {core \in SeqsUpTo({"a", "B", SPACE}, Len(q)) : IsTrimOf(core, q)}

\* C9: a query that is blank after trimming returns the rows as they are;
\* any other query returns, in order and unmodified, exactly the rows whose
\* item or name contains the trimmed query, letter case ignored.
C9_Filter ==
    stage = "filter" =>
        /\ Cores(filters.query) # {}
        /\ \A core \in Cores(filters.query) :
            IF Len(core) = 0
            THEN filteredRows = rows
            ELSE filteredRows =
                    SelectSeq(rows, LAMBDA row :
                        OccursIn(core, row.item) \/ OccursIn(core, row.name))

\* A padded query that matches, letter case ignored, one row in its name only and
\* another row in its value and column 0 only: the first is kept.
C9_Witness ==
    /\ stage = "filter"
    /\ filters.query = <<SPACE, "a">>
    /\ Len(rows) = 2
    /\ rows[1].item = Cell_b /\ rows[1].name = Cell_Ab
    /\ rows[2].item = Cell_b /\ rows[2].name = Cell_b /\ rows[2].value = Cell_ab
    /\ filteredRows = <<rows[1]>>

\* A blank query over a sheet of two rows returns both.
C9_WitnessBlank ==
    /\ stage = "filter"
    /\ filters.query = <<SPACE>>
    /\ Len(rows) = 2
    /\ filteredRows = rows

(***************************************************************************)
(* sortRows                                                                *)
(***************************************************************************)
RECURSIVE Pow10(_)
Pow10(n) == IF n = 0 THEN 1 ELSE 10 * Pow10(n - 1)

Sign(n) == IF n < 0 THEN -1 ELSE IF n > 0 THEN 1 ELSE 0

\* The sign of left - right, where each side is a number or -Infinity;
\* -Infinity - -Infinity is NaN, which Array.prototype.sort reads as 0.
SignOfDifference(left, right) ==
    IF left = NEG_INFINITY /\ right = NEG_INFINITY THEN 0
    ELSE IF left = NEG_INFINITY THEN -1
    ELSE IF right = NEG_INFINITY THEN 1
    ELSE Sign(left.num * Pow10(right.frac) - right.num * Pow10(left.frac))

\* `x ?? -Infinity`
OrNegInfinity(x) == IF x.kind = "null" THEN NEG_INFINITY ELSE x

\* String.prototype.localeCompare on strings of ASCII letters: the letters
\* are compared first with case ignored, and only when they are all equal
\* does case decide, lower case first.
LetterRank(c) ==
    IF toLowerCaseChar(c) = "a" THEN 1 ELSE IF toLowerCaseChar(c) = "b" THEN 2 ELSE 0

RECURSIVE ComparePrimary(_, _)
ComparePrimary(x, y) ==
    IF Len(x) = 0 /\ Len(y) = 0 THEN 0
    ELSE IF Len(x) = 0 THEN -1
    ELSE IF Len(y) = 0 THEN 1
    ELSE IF LetterRank(x[1]) # LetterRank(y[1])
    THEN Sign(LetterRank(x[1]) - LetterRank(y[1]))
    ELSE ComparePrimary(Tail(x), Tail(y))

RECURSIVE CompareCase(_, _)
CompareCase(x, y) ==
    IF Len(x) = 0 \/ Len(y) = 0 THEN 0
    ELSE IF x[1] = y[1] THEN CompareCase(Tail(x), Tail(y))
    ELSE IF toLowerCaseChar(x[1]) = x[1] THEN -1 ELSE 1

localeCompare(x, y) ==
    LET primary == ComparePrimary(x, y)
    IN  IF primary # 0 THEN primary ELSE CompareCase(x, y)

\* A bug that sends a missing csrNumber to +Infinity in descending order.
CompareCsrFlipped(a, b, dir) ==
    LET left == OrNegInfinity(a.csrNumber)
        right == OrNegInfinity(b.csrNumber)
    IN  IF dir = "asc" THEN SignOfDifference(left, right)
        ELSE IF left = NEG_INFINITY \/ right = NEG_INFINITY
        THEN SignOfDifference(left, right)
        ELSE SignOfDifference(right, left)

\* Lines 144-148: the comparison on key "csr".
CompareCsr(a, b, dir) ==
    LET left == OrNegInfinity(a.csrNumber)
        right == OrNegInfinity(b.csrNumber)
    IN  IF dir = "asc" THEN SignOfDifference(left, right)
        ELSE SignOfDifference(right, left)

\* The comparator handed to sort (lines 143-157), as the sign of its result.
CompareRows(a, b, by) ==
    IF by.key = "csr" THEN CompareCsr(a, b, by.dir)
    ELSE IF by.key = "item"
    THEN IF by.dir = "asc" THEN localeCompare(a.item, b.item)
         ELSE localeCompare(b.item, a.item)
    ELSE IF by.dir = "asc" THEN localeCompare(a.name, b.name)
         ELSE localeCompare(b.name, a.name)

\* Array.prototype.sort is stable: an element goes after every element that
\* does not compare greater than it.
InsertRow(sorted, row, by) ==
    LET after == {k \in 1..Len(sorted) : CompareRows(sorted[k], row, by) > 0}
        at == IF after = {} THEN Len(sorted) + 1
              ELSE CHOOSE k \in after : \A j \in after : k <= j
    IN  SubSeq(sorted, 1, at - 1) \o <<row>> \o SubSeq(sorted, at, Len(sorted))

RECURSIVE SortFrom(_, _, _)
SortFrom(sorted, rest, by) ==
    IF Len(rest) = 0 THEN sorted
    ELSE SortFrom(InsertRow(sorted, rest[1], by), Tail(rest), by)

\* `const sorted = [...rows]; sorted.sort(...); return sorted`
sortRows(rs, by) == SortFrom(<<>>, rs, by)

(***************************************************************************)
(* The sorter on its own: a filtered sheet, and the column headers being   *)
(* clicked.                                                                *)
(***************************************************************************)
SortRowShapes ==
    { ParsedRow(<<"a">>, <<"b">>, <<"1", "2">>),
      ParsedRow(<<"B">>, <<"a">>, <<"7">>),
      ParsedRow(<<"b">>, <<"A">>, <<"-", "3">>),
      ParsedRow(<<"a">>, <<"a">>, <<>>),
      ParsedRow(<<"A">>, <<"b">>, <<"n", "/", "a">>),
      ParsedRow(<<"b">>, <<"B">>, <<"8", "5", "%">>),
      ParsedRow(<<"a">>, <<"B">>, <<"4", ".", "5">>),
      ParsedRow(<<"B">>, <<"b">>, <<"1", "-", "2">>),
      ParsedRow(<<"b">>, <<"b">>, <<"1", "2", ".", "0">>) }

SortSheets ==
    {loadSheetRows(<<HeaderRow>> \o body) : body \in SeqsUpTo(SortRowShapes, MaxSortRows)}

SortKeys == {"item", "name", "csr"}

SortInit ==
    /\ text = <<>>
    /\ parsed = <<>>
    /\ rows \in SortSheets
    /\ filters = DEFAULT_FILTERS
    /\ filteredRows = applyFilters(rows, filters)
    /\ sort = [key |-> "csr", dir |-> "desc"]
    /\ sortedRows = sortRows(filteredRows, sort)
    /\ stage = "sort"
    /\ LoadIdle

\* toggleSort(key), and the sortedRows memo recomputed.
toggleSort(key) ==
    /\ stage = "sort"
    /\ sort' = IF sort.key = key
               THEN [key |-> key, dir |-> IF sort.dir = "asc" THEN "desc" ELSE "asc"]
               ELSE [key |-> key, dir |-> IF key = "csr" THEN "desc" ELSE "asc"]
    /\ sortedRows' = sortRows(filteredRows, sort')
    /\ UNCHANGED <<text, parsed, rows, filters, filteredRows, stage>>
    /\ UNCHANGED loadVars

SortNext == \E key \in SortKeys : toggleSort(key)

SortSpec == SortInit /\ [][SortNext]_vars

(***************************************************************************)
(* C10: sorting on the numeric value.                                      *)
(***************************************************************************)
Absent(row) == row.csrNumber.kind = "null"

\* a's parsed number is at least b's.
AtLeast(a, b) ==
    a.csrNumber.num * Pow10(b.csrNumber.frac) >= b.csrNumber.num * Pow10(a.csrNumber.frac)

IsPermutation(s, t) ==
    /\ Len(s) = Len(t)
    /\ \E f \in [1..Len(s) -> 1..Len(s)] :
          /\ \A i, j \in 1..Len(s) : f[i] = f[j] => i = j
          /\ \A i \in 1..Len(s) : s[i] = t[f[i]]

\* C10: on key csr the sorted rows are a permutation of the filtered rows,
\* which stay as they were (in sheet order); descending, higher numbers come
\* first and every row without a number comes after every row with one;
\* ascending, lower numbers come first and the rows without a number come
\* before every row with one.
C10_SortCsr ==
    (stage = "sort" /\ sort.key = "csr") =>
        /\ IsPermutation(sortedRows, filteredRows)
        /\ filteredRows = rows
        /\ \A i, j \in 1..Len(sortedRows) :
              i < j =>
                  IF sort.dir = "desc"
                  THEN /\ Absent(sortedRows[i]) => Absent(sortedRows[j])
                       /\ ~Absent(sortedRows[j]) => AtLeast(sortedRows[i], sortedRows[j])
                  ELSE /\ Absent(sortedRows[j]) => Absent(sortedRows[i])
                       /\ ~Absent(sortedRows[i]) => AtLeast(sortedRows[j], sortedRows[i])

\* Descending: 85% before 4.5 before n/a, the sheet being in another order.
C10_WitnessDesc ==
    /\ stage = "sort"
    /\ sort = [key |-> "csr", dir |-> "desc"]
    /\ Len(sortedRows) = 3
    /\ sortedRows[1].value = <<"8", "5", "%">>
    /\ sortedRows[2].value = <<"4", ".", "5">>
    /\ sortedRows[3].value = <<"n", "/", "a">>
    /\ filteredRows[1].value = <<"n", "/", "a">>
    /\ filteredRows[3].value = <<"8", "5", "%">>

\* Ascending: the row without a number before -3 before 12.
C10_WitnessAsc ==
    /\ stage = "sort"
    /\ sort = [key |-> "csr", dir |-> "asc"]
    /\ Len(sortedRows) = 3
    /\ sortedRows[1].value = <<"1", "-", "2">>
    /\ sortedRows[2].value = <<"-", "3">>
    /\ sortedRows[3].value = <<"1", "2">>
    /\ filteredRows[1].value = <<"1", "2">>

(***************************************************************************)
(* sheetUrls and the sheets state                                          *)
(***************************************************************************)
SHEET_ID == "1-9jt6ofXzOICrUGsw509xeystkNIc2YCgPyB6V2tCjU"

ALL_SHEETS ==
    << [name |-> "Kara40 CSR", gid |-> NULL],
       [name |-> "NAXX CSR", gid |-> NULL],
       [name |-> "AQ CSR", gid |-> NULL],
       [name |-> "ES CSR", gid |-> NULL],
       [name |-> "BWL CSR", gid |-> NULL],
       [name |-> "MC CSR", gid |-> NULL] >>

\* The model loads the first NumSheets entries of the SHEETS array.
SHEETS == SubSeq(ALL_SHEETS, 1, NumSheets)

\* encodeURIComponent on the sheet names: the space becomes %20.
encodeURIComponent(name) ==
    CASE name = "Kara40 CSR" -> "Kara40%20CSR"
      [] name = "NAXX CSR" -> "NAXX%20CSR"
      [] name = "AQ CSR" -> "AQ%20CSR"
      [] name = "ES CSR" -> "ES%20CSR"
      [] name = "BWL CSR" -> "BWL%20CSR"
      [] name = "MC CSR" -> "MC%20CSR"

BaseUrl == "https://docs.google.com/spreadsheets/d/" \o SHEET_ID

sheetUrls(sheet) ==
    LET encoded == encodeURIComponent(sheet.name)
        urls == << BaseUrl \o "/gviz/tq?tqx=out:csv&sheet=" \o encoded,
                   BaseUrl \o "/export?format=csv&sheet=" \o encoded >>
    IN  IF sheet.gid # NULL
        THEN urls \o << BaseUrl \o "/export?format=csv&gid=" \o sheet.gid,
                        BaseUrl \o "/gviz/tq?tqx=out:csv&gid=" \o sheet.gid >>
        ELSE urls

\* useState(SHEETS.map(...)): every slot starts loading.
InitialSheets ==
    [k \in 1..Len(SHEETS) |->
        [name |-> SHEETS[k].name, gid |-> SHEETS[k].gid, status |-> "loading",
         rows |-> <<>>, sourceUrl |-> "", error |-> NULL, updatedAt |-> NULL]]

\* A bug that patches every slot.
IsTargetSlotAny(i, index) == TRUE

\* `i === index` in the updater handed to setSheets.
IsTargetSlot(i, index) == i = index

\* setSheets(prev => prev.map(...)) on success (lines 316-329).
SetReady(prev, index, newRows, url) ==
    [i \in 1..Len(prev) |->
        IF IsTargetSlot(i, index)
        THEN [prev[i] EXCEPT !.status = "ready", !.rows = newRows,
                             !.sourceUrl = url, !.error = NULL,
                             !.updatedAt = "new Date()"]
        ELSE prev[i]]

\* A bug that drops the slot's other fields instead of spreading ...entry.
SetErrorReset(prev, index, message) ==
    [i \in 1..Len(prev) |->
        IF IsTargetSlot(i, index)
        THEN [prev[i] EXCEPT !.status = "error", !.error = message,
                             !.sourceUrl = NULL]
        ELSE prev[i]]

\* setSheets(prev => prev.map(...)) on failure (lines 333-343).
SetError(prev, index, message) ==
    [i \in 1..Len(prev) |->
        IF IsTargetSlot(i, index)
        THEN [prev[i] EXCEPT !.status = "error", !.error = message]
        ELSE prev[i]]

\* `if (!cancelled)` before the success update.
ReadyIsApplied(flag) == ~flag

\* Bugs: the failure update ignores the flag, or is never made.
ErrorIsAppliedAlways(flag) == TRUE

ErrorIsAppliedNever(flag) == FALSE

\* `if (!cancelled)` before the failure update.
ErrorIsApplied(flag) == ~flag

(***************************************************************************)
(* fetchCsvWithFallback, one step per await                                *)
(***************************************************************************)
\* What the network can answer.
Statuses == {200, 404}

\* The message of the TypeError a failed request or body read rejects with.
NetworkError == "Failed to fetch"

\* new Error(`HTTP ${response.status}`).message
HttpMessage(status) ==
    CASE status = 200 -> "HTTP 200"
      [] status = 404 -> "HTTP 404"

\* response.ok
Ok(status) == status >= 200 /\ status <= 299

RECURSIVE Repeat(_, _)
Repeat(c, n) == IF n = 0 THEN <<>> ELSE <<c>> \o Repeat(c, n - 1)

\* Two published sheets: a header line and data rows with item, name and
\* value in columns 10..12.
BodyA ==
    <<"h">> \o Repeat(COMMA, 10) \o <<"i", COMMA, "n", COMMA, "v", LF>>
        \o Repeat(COMMA, 10) \o <<"a", COMMA, "b", COMMA, "7", LF>>

BodyB ==
    <<"h">> \o Repeat(COMMA, 10) \o <<"i", COMMA, "n", COMMA, "v", CR, LF>>
        \o Repeat(COMMA, 12) \o <<CR, LF>>
        \o Repeat(COMMA, 10) \o <<QUOTE, "b", COMMA, "a", QUOTE, COMMA, "a", COMMA, "9", "%">>

Bodies == {BodyA, BodyB}

NotSettled == [state |-> "pending", text |-> <<>>, url |-> "", message |-> ""]

Fulfilled(body, url) == [state |-> "fulfilled", text |-> body, url |-> url, message |-> ""]

Rejected(message) == [state |-> "rejected", text |-> <<>>, url |-> "", message |-> message]

Succeeded(body) == [ok |-> TRUE, message |-> "", body |-> body]

Failed(message) == [ok |-> FALSE, message |-> message, body |-> <<>>]

\* A bug that keeps the first failure.
CaughtErrorFirst(previous, error) == IF previous = NULL THEN error ELSE previous

\* `lastError = error` in the catch clause.
CaughtError(previous, error) == error

\* `throw lastError || new Error("Fetch failed")`, as the message thrown.
ThrownMessage(last) == IF last = NULL THEN "Fetch failed" ELSE last

\* A bug that tries the same candidate again.
NextCandidateSame(k) == k

\* `for (const url of urls)`: the candidate after the k-th.
NextCandidate(k) == k + 1

Init ==
    /\ text = <<>>
    /\ parsed = <<>>
    /\ rows = <<>>
    /\ filters = DEFAULT_FILTERS
    /\ filteredRows = <<>>
    /\ sort = [key |-> "csr", dir |-> "desc"]
    /\ sortedRows = <<>>
    /\ stage = "load"
    /\ sheets = InitialSheets
    /\ cancelled = FALSE
    /\ mounted = FALSE
    /\ pc = [i \in 1..NumSheets |-> "idle"]
    /\ urlIndex = [i \in 1..NumSheets |-> 0]
    /\ lastError = [i \in 1..NumSheets |-> NULL]
    /\ settled = [i \in 1..NumSheets |-> NotSettled]
    /\ requests = [i \in 1..NumSheets |-> <<>>]
    /\ outcomes = [i \in 1..NumSheets |-> <<>>]
    /\ hung = [i \in 1..NumSheets |-> FALSE]

\* The effect runs: SHEETS.forEach starts every loadSheet, and each runs up
\* to its first await, the fetch of its first candidate.
Mount ==
    /\ ~mounted
    /\ mounted' = TRUE
    /\ pc' = [i \in 1..NumSheets |-> "fetch"]
    /\ urlIndex' = [i \in 1..NumSheets |-> 1]
    /\ requests' = [i \in 1..NumSheets |-> <<sheetUrls(SHEETS[i])[1]>>]
    /\ UNCHANGED <<sheets, cancelled, lastError, settled, outcomes, hung>>
    /\ UNCHANGED pipeVars

\* The effect's cleanup.
Unmount ==
    /\ mounted
    /\ ~cancelled
    /\ cancelled' = TRUE
    /\ UNCHANGED <<sheets, mounted, pc, urlIndex, lastError, settled,
                   requests, outcomes, hung>>
    /\ UNCHANGED pipeVars

\* The catch clause and the loop's next turn: the next candidate is fetched,
\* or the loop ends and the last error is thrown.
AttemptFailed(i, message) ==
    LET urls == sheetUrls(SHEETS[i])
        next == NextCandidate(urlIndex[i])
    IN  /\ lastError' = [lastError EXCEPT ![i] = CaughtError(@, message)]
        /\ outcomes' = [outcomes EXCEPT ![i] = Append(@, Failed(message))]
        /\ IF next <= Len(urls)
           THEN /\ urlIndex' = [urlIndex EXCEPT ![i] = next]
                /\ requests' = [requests EXCEPT ![i] = Append(@, urls[next])]
                /\ pc' = [pc EXCEPT ![i] = "fetch"]
                /\ UNCHANGED settled
           ELSE /\ settled' = [settled EXCEPT ![i] = Rejected(ThrownMessage(lastError'[i]))]
                /\ pc' = [pc EXCEPT ![i] = "resume"]
                /\ UNCHANGED <<urlIndex, requests>>
        /\ UNCHANGED <<sheets, cancelled, mounted, hung>>
        /\ UNCHANGED pipeVars

\* fetch(url) rejects.
FetchRejects(i) ==
    /\ pc[i] = "fetch"
    /\ ~hung[i]
    /\ AttemptFailed(i, NetworkError)

\* fetch(url) resolves with a response.
FetchResponds(i, status) ==
    /\ pc[i] = "fetch"
    /\ ~hung[i]
    /\ IF Ok(status)
       THEN /\ pc' = [pc EXCEPT ![i] = "text"]
            /\ UNCHANGED <<sheets, cancelled, mounted, urlIndex, lastError,
                           settled, requests, outcomes, hung>>
            /\ UNCHANGED pipeVars
       ELSE AttemptFailed(i, HttpMessage(status))

\* response.text() resolves: fetchCsvWithFallback returns { text, url }.
TextResolves(i, body) ==
    /\ pc[i] = "text"
    /\ ~hung[i]
    /\ outcomes' = [outcomes EXCEPT ![i] = Append(@, Succeeded(body))]
    /\ settled' = [settled EXCEPT ![i] =
                      Fulfilled(body, sheetUrls(SHEETS[i])[urlIndex[i]])]
    /\ pc' = [pc EXCEPT ![i] = "resume"]
    /\ UNCHANGED <<sheets, cancelled, mounted, urlIndex, lastError, requests, hung>>
    /\ UNCHANGED pipeVars

\* response.text() rejects.
TextRejects(i) ==
    /\ pc[i] = "text"
    /\ ~hung[i]
    /\ AttemptFailed(i, NetworkError)

\* The pending request never completes.
Hangs(i) ==
    /\ pc[i] \in {"fetch", "text"}
    /\ ~hung[i]
    /\ hung' = [hung EXCEPT ![i] = TRUE]
    /\ UNCHANGED <<sheets, cancelled, mounted, pc, urlIndex, lastError,
                   settled, requests, outcomes>>
    /\ UNCHANGED pipeVars

\* Lines 298-314: parse the text, sanitize the rows, build the row objects;
\* tabulated for the bodies the network can deliver.
RowsOfBody == [body \in Bodies |-> loadSheetRows(parseCSV(body))]

LoadedRows(body) == RowsOfBody[body]

\* loadSheet resumes with the result: parse, build the rows, update the slot.
LoadSucceeds(i) ==
    /\ pc[i] = "resume"
    /\ settled[i].state = "fulfilled"
    /\ sheets' = IF ReadyIsApplied(cancelled)
                 THEN SetReady(sheets, i, LoadedRows(settled[i].text), settled[i].url)
                 ELSE sheets
    /\ pc' = [pc EXCEPT ![i] = "done"]
    /\ UNCHANGED <<cancelled, mounted, urlIndex, lastError, settled,
                   requests, outcomes, hung>>
    /\ UNCHANGED pipeVars

\* loadSheet resumes in its catch clause.
LoadFails(i) ==
    /\ pc[i] = "resume"
    /\ settled[i].state = "rejected"
    /\ sheets' = IF ErrorIsApplied(cancelled)
                 THEN SetError(sheets, i, settled[i].message)
                 ELSE sheets
    /\ pc' = [pc EXCEPT ![i] = "done"]
    /\ UNCHANGED <<cancelled, mounted, urlIndex, lastError, settled,
                   requests, outcomes, hung>>
    /\ UNCHANGED pipeVars

Progress(i) ==
    \/ FetchRejects(i)
    \/ \E status \in Statuses : FetchResponds(i, status)
    \/ \E body \in Bodies : TextResolves(i, body)
    \/ TextRejects(i)
    \/ LoadSucceeds(i)
    \/ LoadFails(i)

Next ==
    \/ Mount
    \/ Unmount
    \/ \E i \in 1..NumSheets : Progress(i)
    \/ \E i \in 1..NumSheets : Hangs(i)

Spec == Init /\ [][Next]_vars

\* Every promise that is not hung settles, and every continuation runs.
LiveSpec ==
    /\ Init
    /\ [][Next]_vars
    /\ WF_vars(Mount)
    /\ \A i \in 1..NumSheets : WF_vars(Progress(i))

(***************************************************************************)
(* C1 - C5: the loads.                                                     *)
(***************************************************************************)
Sheet(i) == sheets[i]

Urls(i) == sheetUrls(SHEETS[i])

AllFailed(i) ==
    /\ Len(outcomes[i]) = Len(Urls(i))
    /\ \A k \in 1..Len(outcomes[i]) : ~outcomes[i][k].ok

\* C1: the candidates are requested in list order, each at most once and
\* each only after the one before it failed; nothing is requested after a
\* success; and fetchCsvWithFallback returns the body and the URL of the
\* first candidate that succeeded.
C1_InOrder ==
    \A i \in 1..NumSheets :
        LET n == Len(requests[i])
            m == Len(outcomes[i])
        IN  /\ n <= Len(Urls(i))
            /\ \A k \in 1..n : requests[i][k] = Urls(i)[k]
            /\ \A k, l \in 1..n : requests[i][k] = requests[i][l] => k = l
            /\ m <= n /\ n <= m + 1
            /\ \A k \in 1..m : outcomes[i][k].ok => (k = n /\ k = m)
            /\ (m > 0 /\ outcomes[i][m].ok) =>
                  /\ settled[i].state = "fulfilled"
                  /\ settled[i].url = Urls(i)[m]
                  /\ settled[i].text = outcomes[i][m].body
            /\ settled[i].state = "fulfilled" => (m > 0 /\ outcomes[i][m].ok)

\* The first candidate failed, the second succeeded, and the call returned
\* the second candidate's URL and body.
C1_Witness ==
    /\ Len(outcomes[1]) = 2
    /\ ~outcomes[1][1].ok
    /\ outcomes[1][2].ok
    /\ settled[1].state = "fulfilled"
    /\ settled[1].url = Urls(1)[2]
    /\ settled[1].text = BodyB
    /\ Sheet(1).status = "ready"
    /\ Sheet(1).sourceUrl = Urls(1)[2]

\* C2: when every candidate failed, fetchCsvWithFallback rejects with the
\* failure of the last candidate, and loadSheet, unless cancelled, leaves
\* the slot in status error with that failure's message.
C2_LastFailure ==
    \A i \in 1..NumSheets :
        /\ AllFailed(i) =>
              /\ settled[i].state = "rejected"
              /\ settled[i].message = outcomes[i][Len(Urls(i))].message
        /\ settled[i].state = "rejected" => AllFailed(i)
        /\ (AllFailed(i) /\ pc[i] = "done" /\ ~cancelled) =>
              /\ Sheet(i).status = "error"
              /\ Sheet(i).error = outcomes[i][Len(Urls(i))].message
        /\ Sheet(i).status = "error" =>
              /\ AllFailed(i)
              /\ Sheet(i).error = outcomes[i][Len(Urls(i))].message

\* The first candidate failed in the network, the last with HTTP 404, and
\* the slot shows the last.
C2_Witness ==
    /\ outcomes[1] = <<Failed(NetworkError), Failed("HTTP 404")>>
    /\ Sheet(1).status = "error"
    /\ Sheet(1).error = "HTTP 404"

Completes(i) == pc[i] = "resume" /\ pc'[i] = "done"

\* C3: in every step in which the load of one sheet completes, the slot of
\* every other sheet is left as it was.
C3_OwnSlotOnly ==
    [][\A i \in 1..NumSheets :
          Completes(i) => \A j \in (1..NumSheets) \ {i} : sheets'[j] = sheets[j]]_vars

\* One sheet is ready with rows after another sheet's load failed.
C3_Witness ==
    /\ Sheet(1).status = "ready"
    /\ Len(Sheet(1).rows) > 0
    /\ Sheet(2).status = "error"
    /\ pc[1] = "done"
    /\ pc[2] = "done"

\* C4: once cancelled is set, no step changes the sheets state.
C4_NoUpdateAfterTeardown == [][cancelled => sheets' = sheets]_vars

\* After teardown one load succeeded and another failed, and both slots
\* are still loading.
C4_Witness ==
    /\ cancelled
    /\ pc[1] = "done" /\ settled[1].state = "fulfilled"
    /\ pc[2] = "done" /\ settled[2].state = "rejected"
    /\ Sheet(1).status = "loading"
    /\ Sheet(2).status = "loading"

\* C5: a slot that is loading leaves loading, unless the view is torn down
\* or one of that sheet's own requests never completes; a hung request of
\* another sheet does not matter.
C5_LeavesLoading ==
    \A i \in 1..NumSheets :
        (Sheet(i).status = "loading")
            ~> (cancelled \/ hung[i] \/ Sheet(i).status \in {"ready", "error"})

\* One sheet hangs in loading while another has become ready.
C5_Witness ==
    /\ ~cancelled
    /\ hung[1]
    /\ Sheet(1).status = "loading"
    /\ Sheet(2).status = "ready"

(***************************************************************************)
(* C11: the life of a slot.                                                *)
(***************************************************************************)
Candidates(i) == {Urls(i)[k] : k \in 1..Len(Urls(i))}

SlotIsWellFormed(i) ==
    /\ Sheet(i).status \in {"loading", "ready", "error"}
    /\ Sheet(i).status = "loading" =>
          /\ Sheet(i).rows = <<>>
          /\ Sheet(i).sourceUrl = ""
          /\ Sheet(i).error = NULL
    /\ Sheet(i).status = "ready" =>
          /\ Sheet(i).error = NULL
          /\ Sheet(i).sourceUrl \in Candidates(i)
    /\ Sheet(i).status = "error" =>
          /\ Sheet(i).rows = <<>>
          /\ Sheet(i).sourceUrl = ""

\* A slot changes only while loading, and then to ready or to error.
SlotChangesOnce(i) ==
    sheets'[i] # sheets[i] =>
        /\ sheets[i].status = "loading"
        /\ sheets'[i].status \in {"ready", "error"}

\* C11: every slot starts loading with no rows and an empty sourceUrl; its
\* status is always loading, ready or error; a ready slot has error null and
\* the sourceUrl of one of its sheet's candidates, an error slot has no rows
\* and an empty sourceUrl; and a slot changes at most once, from loading to
\* ready or from loading to error, never afterwards.
C11_SlotLifecycle ==
    /\ \A i \in 1..NumSheets :
          /\ Sheet(i).status = "loading"
          /\ Sheet(i).rows = <<>>
          /\ Sheet(i).sourceUrl = ""
    /\ [](\A i \in 1..NumSheets : SlotIsWellFormed(i))
    /\ [][\A i \in 1..NumSheets : SlotChangesOnce(i)]_vars

\* One slot is ready from its second candidate, with rows; the other is in
\* error with no rows and no sourceUrl; both loads are over.
C11_Witness ==
    /\ Sheet(1).status = "error"
    /\ Sheet(1).error = NetworkError
    /\ Sheet(1).rows = <<>>
    /\ Sheet(1).sourceUrl = ""
    /\ Sheet(2).status = "ready"
    /\ Sheet(2).sourceUrl = Urls(2)[2]
    /\ Sheet(2).rows = RowsOfBody[BodyA]
    /\ Len(Sheet(2).rows) > 0
    /\ pc[1] = "done"
    /\ pc[2] = "done"

=============================================================================
